---- MODULE Spec2Model ----
(***************************************************************************)
(* Model of the payment-transaction lifecycle of the payment service:      *)
(* the PaymentTransaction entity and its storage record, the DynamoDB      *)
(* repository, the Create / Webhook / Status / Callback use cases and the  *)
(* controller's process_webhook.                                           *)
(*                                                                         *)
(* The table is a function from stored ids to items; an item is a function *)
(* whose DOMAIN is the set of attributes present.  Every request is a      *)
(* process; each step of a process is one call to the table (or the one    *)
(* HTTP POST) together with the local computation around it, so that       *)
(* requests interleave exactly where the code talks to the outside.        *)
(* A table call may fail with a ClientError where the set of allowed       *)
(* faults F says so.                                                       *)
(***************************************************************************)
EXTENDS Integers, Sequences, FiniteSets, TLC

VARIABLES
    table,       \* the DynamoDB table: stored id -> item
    proc,        \* per request slot: position and local variables
    issued,      \* number of uuid4 values generated so far
    ops,         \* number of requests started so far
    now,         \* the clock (datetime.now), in minutes
    lastCreate,  \* history: per order, transaction_id of the last Create response
    approvedIds  \* history: ids for which an approving Webhook returned success

vars == <<table, proc, issued, ops, now, lastCreate, approvedIds>>

---------------------------------------------------------------------------
(* Bounds *)

MaxOps == 2         \* requests started in one behaviour
NumOrders == 2      \* order ids
MaxTick == 1        \* clock ticks in one behaviour

(* Program constants *)

ExpiryMinutes == 15
HttpErrorFloor == 400

Procs == {1, 2}     \* request slots: at most two requests in flight at once
Orders == 1..NumOrders

None == "None"      \* Python None of a string-valued field
NoTime == -1        \* Python None of a datetime-valued field

Truthy(s) == s # None /\ s # ""

uuid4(n) == "tx" \o ToString(n)

\* the Create requests tried: body of POST /payment/request/{order_id}
CreateBodies ==
    {[amount |-> 10, callback_url |-> None, provider |-> None],
     [amount |-> 20, callback_url |-> "http://cb", provider |-> "pix"]}
\* the webhook messages tried
Messages == {None, "X"}

OrderApiHost == "http://order-service:8000"

---------------------------------------------------------------------------
(* Entity: src/entities/payment_transaction.py *)

PaymentStatus == {"PENDING", "APPROVED", "DECLINED", "EXPIRED"}
CallbackStatus == {"PENDING", "DELIVERED", "FAILED"}

RequiredFields ==
    {"id", "order_id", "amount", "status", "created_at", "updated_at",
     "metadata", "callback_status"}
OptionalFields ==
    {"provider", "provider_tx_id", "qr_or_link", "expires_at", "last_error",
     "last_callback_error"}

\* Optional[PaymentTransaction] None
NoneTx == [id |-> None]
IsNone(tx) == tx.id = None

EmptyDict == [k \in {} |-> None]

isoformat(t) == "T" \o ToString(t)
TimeRange == 0..(MaxTick + 2 * ExpiryMinutes + 1)
fromisoformat(s) == CHOOSE t \in TimeRange : isoformat(t) = s

Get(item, key, default) == IF key \in DOMAIN item THEN item[key] ELSE default

\* (variant: a new transaction starts as APPROVED)
new_approved(id, order_id, amount, provider, qr_or_link, expires_at, t) ==
    [id |-> id, order_id |-> order_id, amount |-> amount, status |-> "APPROVED",
     provider |-> provider, provider_tx_id |-> None, qr_or_link |-> qr_or_link,
     expires_at |-> expires_at, created_at |-> t, updated_at |-> t,
     last_error |-> None, metadata |-> EmptyDict,
     callback_status |-> "PENDING", last_callback_error |-> None]

\* PaymentTransaction.new: fresh id, the dataclass defaults for the rest
new(id, order_id, amount, provider, qr_or_link, expires_at, t) ==
    [id |-> id, order_id |-> order_id, amount |-> amount, status |-> "PENDING",
     provider |-> provider, provider_tx_id |-> None, qr_or_link |-> qr_or_link,
     expires_at |-> expires_at, created_at |-> t, updated_at |-> t,
     last_error |-> None, metadata |-> EmptyDict,
     callback_status |-> "PENDING", last_callback_error |-> None]

\* (variant: optional fields are written only when truthy)
to_item_truthy(tx) ==
    LET optional_fields ==
            [provider |-> tx.provider,
             provider_tx_id |-> tx.provider_tx_id,
             qr_or_link |-> tx.qr_or_link,
             expires_at |-> IF tx.expires_at # NoTime
                            THEN isoformat(tx.expires_at) ELSE None,
             last_error |-> tx.last_error,
             last_callback_error |-> tx.last_callback_error]
        present == {k \in OptionalFields : Truthy(optional_fields[k])}
        required ==
            [id |-> tx.id, order_id |-> tx.order_id, amount |-> tx.amount,
             status |-> tx.status,
             created_at |-> isoformat(tx.created_at),
             updated_at |-> isoformat(tx.updated_at),
             metadata |-> tx.metadata,
             callback_status |-> tx.callback_status]
    IN  [k \in RequiredFields \cup present |->
            IF k \in RequiredFields THEN required[k] ELSE optional_fields[k]]

\* PaymentTransaction.to_item: required fields always, optional ones when not None
to_item(tx) ==
    LET optional_fields ==
            [provider |-> tx.provider,
             provider_tx_id |-> tx.provider_tx_id,
             qr_or_link |-> tx.qr_or_link,
             expires_at |-> IF tx.expires_at # NoTime
                            THEN isoformat(tx.expires_at) ELSE None,
             last_error |-> tx.last_error,
             last_callback_error |-> tx.last_callback_error]
        present == {k \in OptionalFields : optional_fields[k] # None}
        required ==
            [id |-> tx.id, order_id |-> tx.order_id, amount |-> tx.amount,
             status |-> tx.status,
             created_at |-> isoformat(tx.created_at),
             updated_at |-> isoformat(tx.updated_at),
             metadata |-> tx.metadata,
             callback_status |-> tx.callback_status]
    IN  [k \in RequiredFields \cup present |->
            IF k \in RequiredFields THEN required[k] ELSE optional_fields[k]]

\* from_item raises KeyError unless id, order_id and amount are present
FromItemOk(item) == {"id", "order_id", "amount"} \subseteq DOMAIN item

\* PaymentTransaction.from_item
from_item(item, t) ==
    [id |-> item["id"],
     order_id |-> item["order_id"],
     amount |-> item["amount"],
     status |-> Get(item, "status", "PENDING"),
     provider |-> Get(item, "provider", None),
     provider_tx_id |-> Get(item, "provider_tx_id", None),
     qr_or_link |-> Get(item, "qr_or_link", None),
     expires_at |-> IF Truthy(Get(item, "expires_at", None))
                    THEN fromisoformat(item["expires_at"]) ELSE NoTime,
     created_at |-> IF Truthy(Get(item, "created_at", None))
                    THEN fromisoformat(item["created_at"]) ELSE t,
     updated_at |-> IF Truthy(Get(item, "updated_at", None))
                    THEN fromisoformat(item["updated_at"]) ELSE t,
     last_error |-> Get(item, "last_error", None),
     metadata |-> Get(item, "metadata", EmptyDict),
     callback_status |-> Get(item, "callback_status", "PENDING"),
     last_callback_error |-> Get(item, "last_callback_error", None)]

---------------------------------------------------------------------------
(* Repository: src/adapters/gateways/dynamo_payment_repository.py *)

\* table.put_item / update_item result: the table with `item` stored under `id`
Put(tbl, id, item) ==
    [i \in DOMAIN tbl \cup {id} |-> IF i = id THEN item ELSE tbl[i]]

\* the order_id-index (hash key order_id only): ids of the items of an order
order_id_index(tbl, order_id) ==
    {i \in DOMAIN tbl :
        "order_id" \in DOMAIN tbl[i] /\ tbl[i]["order_id"] = order_id}

\* (variant: the put is refused when the order already has a stored item)
create_pending_once_per_order(tbl, transaction, fault) ==
    IF fault
    THEN [table |-> tbl, exc |-> "ClientError"]
    ELSE IF transaction.id \in DOMAIN tbl
            \/ order_id_index(tbl, transaction.order_id) # {}
    THEN [table |-> tbl, exc |-> "ConditionalCheckFailedException"]
    ELSE [table |-> Put(tbl, transaction.id, to_item(transaction)), exc |-> None]

\* (variant: a condition-less put_item, which overwrites)
create_pending_overwriting(tbl, transaction, fault) ==
    IF fault
    THEN [table |-> tbl, exc |-> "ClientError"]
    ELSE [table |-> Put(tbl, transaction.id, to_item(transaction)), exc |-> None]

\* create_pending: put_item with ConditionExpression attribute_not_exists(id);
\* the call raises (exc) when the condition fails or on any other ClientError,
\* and stores the item otherwise
create_pending(tbl, transaction, fault) ==
    IF fault
    THEN [table |-> tbl, exc |-> "ClientError"]
    ELSE IF transaction.id \in DOMAIN tbl
    THEN [table |-> tbl, exc |-> "ConditionalCheckFailedException"]
    ELSE [table |-> Put(tbl, transaction.id, to_item(transaction)), exc |-> None]

\* (variant: a failed query answers with what is stored)
get_by_order_unguarded(tbl, order_id, fault, t) ==
    IF order_id_index(tbl, order_id) = {}
    THEN {NoneTx}
    ELSE {from_item(tbl[i], t) : i \in order_id_index(tbl, order_id)}

\* get_by_order: Query with Limit=1 on an index without a sort key returns one
\* of the order's items; a ClientError is swallowed into "no items"
get_by_order(tbl, order_id, fault, t) ==
    IF fault \/ order_id_index(tbl, order_id) = {}
    THEN {NoneTx}
    ELSE {from_item(tbl[i], t) : i \in order_id_index(tbl, order_id)}

\* get_by_id raises (KeyError in from_item) on an item without id, order_id, amount
GetByIdRaises(tbl, id) == id \in DOMAIN tbl /\ ~FromItemOk(tbl[id])

\* get_by_id: the item of the id as an entity, None when no item is stored
get_by_id(tbl, id, t) == IF id \in DOMAIN tbl THEN from_item(tbl[id], t) ELSE NoneTx

\* update_status: provider_value = provider_tx_id or transaction_id
ProviderValue(provider_tx_id, transaction_id) ==
    IF Truthy(provider_tx_id) THEN provider_tx_id ELSE transaction_id

\* update_status / update_callback_status: error_value = error or ""
ErrorValue(error) == IF Truthy(error) THEN error ELSE ""

\* update_item creates the item when the key is not stored
ItemOrKey(tbl, id) == IF id \in DOMAIN tbl THEN tbl[id] ELSE [k \in {"id"} |-> id]

\* (variant: the update replaces the item by the attributes it sets)
SetAttrsReplacing(old, set) == set

\* update_item SET: the named attributes are set, the others are kept
SetAttrs(old, set) ==
    [k \in DOMAIN old \cup DOMAIN set |-> IF k \in DOMAIN set THEN set[k] ELSE old[k]]

\* (variant: the status update reaches every stored item)
UpdateStatusItemAll(tbl, id, s, p, e, u) ==
    [i \in DOMAIN tbl |-> SetAttrs(tbl[i], [status |-> s, updated_at |-> u])]

\* (variant: the status update stores nothing)
UpdateStatusItemLost(tbl, id, s, p, e, u) == tbl

\* update_status's update_item:
\* SET #s = :s, provider_tx_id = if_not_exists(provider_tx_id, :p),
\*     last_error = :e, updated_at = :u
UpdateStatusItem(tbl, id, s, p, e, u) ==
    LET old == ItemOrKey(tbl, id)
        set == [status |-> s,
                provider_tx_id |-> IF "provider_tx_id" \in DOMAIN old
                                   THEN old["provider_tx_id"] ELSE p,
                last_error |-> e,
                updated_at |-> u]
    IN  Put(tbl, id, SetAttrs(old, set))

\* (variant: the callback update also writes its error into last_error)
UpdateCallbackItemWithError(tbl, id, c, e, u) ==
    LET old == ItemOrKey(tbl, id)
        set == [callback_status |-> c, last_callback_error |-> e, last_error |-> e,
                updated_at |-> u]
    IN  Put(tbl, id, SetAttrs(old, set))

\* update_callback_status's update_item:
\* SET callback_status = :c, last_callback_error = :e, updated_at = :u
UpdateCallbackItem(tbl, id, c, e, u) ==
    LET old == ItemOrKey(tbl, id)
        set == [callback_status |-> c, last_callback_error |-> e, updated_at |-> u]
    IN  Put(tbl, id, SetAttrs(old, set))

\* (variant: a new transaction is inserted whatever exists)
ReuseNever(existing) == FALSE

\* (variant: only a transaction that is still PENDING is reused)
ReuseOnlyPending(existing) == ~IsNone(existing) /\ existing.status = "PENDING"

\* (variant: a PENDING transaction past its expires_at is not reused)
ReuseUnexpired(existing) ==
    ~IsNone(existing) /\ ~(existing.status = "PENDING" /\ existing.expires_at < now)

\* upsert_by_order_if_pending: an existing transaction is returned, whatever
\* its status, and nothing is created
ReuseExisting(existing) == ~IsNone(existing)

\* (variant: the reused record takes the metadata of the new request)
ReturnExistingRefreshed(tbl, existing, transaction) ==
    Put(tbl, existing.id,
        SetAttrs(ItemOrKey(tbl, existing.id), [metadata |-> transaction.metadata]))

\* upsert_by_order_if_pending: "return existing, False" writes nothing; the
\* transaction built from the new request is dropped
ReturnExisting(tbl, existing, transaction) == tbl

---------------------------------------------------------------------------
(* Use cases: src/application/use_cases/payment_use_cases.py *)

\* PaymentCreateUseCase.execute, up to the call of upsert_by_order_if_pending
mock_provider_tx_id(n) == "mp" \o ToString(n)

_generate_pix_qr_code_mock(provider_tx_id, amount, order_id) ==
    "PEDIDO#" \o ToString(order_id) \o "|R$" \o ToString(amount) \o "|MP:" \o provider_tx_id

BuildTransaction(order_id, amount, callback_url, provider, n, t) ==
    LET provider_tx_id == mock_provider_tx_id(n)
        fresh == new(uuid4(n), order_id, amount,
                     IF Truthy(provider) THEN provider ELSE "mercadopago",
                     _generate_pix_qr_code_mock(provider_tx_id, amount, order_id),
                     t + ExpiryMinutes, t)
        payment_url ==
            "https://www.mercadopago.com.br/payments/" \o provider_tx_id \o "/ticket"
    IN  [fresh EXCEPT
            !.provider_tx_id = provider_tx_id,
            !.metadata = IF Truthy(callback_url)
                         THEN [callback_url |-> callback_url, payment_url |-> payment_url]
                         ELSE [payment_url |-> payment_url]]

\* PaymentCreateResponse
CreateResponse(tx) ==
    [transaction_id |-> tx.id, qr_or_link |-> tx.qr_or_link, expires_at |-> tx.expires_at]

\* (variant: an error answer is not recorded as a failure)
CallbackResultLenient(outcome) ==
    IF outcome.kind = "response" /\ outcome.code < HttpErrorFloor
    THEN [status |-> "DELIVERED", error |-> None]
    ELSE IF outcome.kind = "response"
         THEN [status |-> "PENDING", error |-> "Callback failed"]
         ELSE [status |-> "FAILED", error |-> outcome.text]

\* (variant: a refused payment becomes EXPIRED)
NewStatusExpiring(approval_status) == IF approval_status THEN "APPROVED" ELSE "EXPIRED"

\* (variant: the two outcomes swapped)
NewStatusSwapped(approval_status) == IF approval_status THEN "DECLINED" ELSE "APPROVED"

\* PaymentWebhookUseCase.execute: new_status
NewStatus(approval_status) == IF approval_status THEN "APPROVED" ELSE "DECLINED"

\* (variant: the not-found check is missing)
WebhookFoundAlways(transaction) == TRUE

\* (variant: a transaction whose callback was delivered is not processed again)
WebhookFoundUndelivered(transaction) ==
    ~IsNone(transaction) /\ Get(transaction, "callback_status", None) # "DELIVERED"

\* PaymentWebhookUseCase.execute: "if not transaction: return None"
WebhookFound(transaction) == ~IsNone(transaction)

\* (variant: the view shows the status of a new transaction)
StatusViewStale(tx) ==
    [transaction_id |-> tx.id, order_id |-> tx.order_id, status |-> "PENDING",
     callback_status |-> tx.callback_status, qr_or_link |-> tx.qr_or_link,
     expires_at |-> tx.expires_at, last_error |-> tx.last_error]

\* PaymentTransactionStatusResponse.from_entity
StatusView(tx) ==
    [transaction_id |-> tx.id, order_id |-> tx.order_id, status |-> tx.status,
     callback_status |-> tx.callback_status, qr_or_link |-> tx.qr_or_link,
     expires_at |-> tx.expires_at, last_error |-> tx.last_error]

\* (variant: the stored callback URL is not looked at)
CallbackUrlDefault(tx) ==
    OrderApiHost \o "/order/payment_confirm/" \o ToString(tx.order_id)

\* PaymentCallbackUseCase.execute: the callback target
CallbackUrl(tx) ==
    IF "callback_url" \in DOMAIN tx.metadata /\ Truthy(tx.metadata["callback_url"])
    THEN tx.metadata["callback_url"]
    ELSE OrderApiHost \o "/order/payment_confirm/" \o ToString(tx.order_id)

\* outcomes of the POST: a response with a status code, or an exception whose
\* str() is `text`
HttpCodes == {200, 201, 399, 400, 500}
ExceptionTexts == {"", "timeout"}
HttpOutcomes ==
    [kind : {"response"}, code : HttpCodes, text : {None}]
        \cup [kind : {"exception"}, code : {0}, text : ExceptionTexts]

\* PaymentCallbackUseCase.execute: what is recorded for an outcome of the POST
CallbackResult(outcome) ==
    IF outcome.kind = "response" /\ outcome.code < HttpErrorFloor
    THEN [status |-> "DELIVERED", error |-> None]
    ELSE IF outcome.kind = "response"
         THEN [status |-> "FAILED", error |-> "Callback failed"]
         ELSE [status |-> "FAILED", error |-> outcome.text]

ClientErrorText == "ClientError"

---------------------------------------------------------------------------
(* Requests.  pc of a request slot:                                        *)
(*   idle -> (Create)  c_put -> done | raised                              *)
(*        -> (Webhook) w_update -> w_readback -> cb_post -> cb_update      *)
(*                     -> cb_readback -> done | raised                     *)
(*        -> (Status)  done                                                *)
(* "raised": an exception left the handler.                                *)

\* transaction ids a webhook may name: the stored ones and one that is not stored
UnknownId == "unknown"
WebhookIds(tbl) == DOMAIN tbl \cup {UnknownId}

NoCb == [status |-> None, error |-> None]
\* Optional[PaymentTransactionStatusResponse] None
NoView == [transaction_id |-> None]
NoOutcome == [kind |-> None, code |-> 0, text |-> None]

Idle ==
    [pc |-> "idle", op |-> "none",
     order_id |-> 0, amount |-> 0, callback_url |-> None, provider |-> None,
     transaction_id |-> None, approval_status |-> FALSE, message |-> None,
     tx |-> NoneTx, found_status |-> None, result |-> NoneTx, created |-> FALSE,
     outcome |-> NoOutcome, cb |-> NoCb, handling |-> FALSE,
     updated |-> FALSE, posted |-> FALSE, recorded |-> FALSE,
     index_failed |-> FALSE, view |-> NoView, exc |-> None, url |-> None]

NoFaults == {FALSE}
AnyFault == {FALSE, TRUE}

EmptyTable == [i \in {} |-> EmptyDict]

\* a transaction of order 1 that an earlier Create stored (uuid4 number 0) and
\* that has since reached `status`
Seeded(status) ==
    [BuildTransaction(1, 10, None, None, 0, 0) EXCEPT !.status = status]

\* a request starts in the lowest free slot
FreeSlot(p) ==
    /\ proc[p].pc = "idle"
    /\ \A q \in Procs : q < p => proc[q].pc # "idle"

\* The service starts with no request in flight, on a table that is empty or
\* holds one transaction of an earlier Create
Init ==
    /\ proc = [p \in Procs |-> Idle]
    /\ issued = 0
    /\ ops = 0
    /\ now = 0
    /\ \/ /\ table = EmptyTable
          /\ lastCreate = [o \in Orders |-> None]
          /\ approvedIds = {}
       \/ \E status \in PaymentStatus :
            /\ table = Put(EmptyTable, uuid4(0), to_item(Seeded(status)))
            /\ lastCreate = [o \in Orders |-> IF o = 1 THEN uuid4(0) ELSE None]
            /\ approvedIds = IF status = "APPROVED" THEN {uuid4(0)} ELSE {}

\* PaymentCreateUseCase.execute up to and including get_by_order inside
\* upsert_by_order_if_pending
CreateLookup(p, F) ==
    /\ FreeSlot(p)
    /\ ops < MaxOps
    /\ \E order_id \in Orders, body \in CreateBodies, fault \in F :
        LET transaction ==
                BuildTransaction(order_id, body.amount, body.callback_url,
                                 body.provider, issued + 1, now)
            req == [Idle EXCEPT !.op = "create", !.order_id = order_id,
                                !.amount = body.amount,
                                !.callback_url = body.callback_url,
                                !.provider = body.provider,
                                !.index_failed = fault]
        IN  \E existing \in get_by_order(table, order_id, fault, now) :
                /\ proc' = [proc EXCEPT ![p] =
                        IF ReuseExisting(existing)
                        THEN [req EXCEPT !.pc = "done", !.result = existing,
                                         !.created = FALSE]
                        ELSE [req EXCEPT !.pc = "c_put", !.tx = transaction]]
                /\ table' = IF ReuseExisting(existing)
                            THEN ReturnExisting(table, existing, transaction)
                            ELSE table
    /\ issued' = issued + 1
    /\ ops' = ops + 1
    /\ UNCHANGED <<now, lastCreate, approvedIds>>

\* create_pending: put_item with ConditionExpression attribute_not_exists(id);
\* a failed condition or any other ClientError propagates
CreatePut(p, F) ==
    /\ proc[p].pc = "c_put"
    /\ \E fault \in F :
        LET put == create_pending(table, proc[p].tx, fault)
        IN  /\ table' = put.table
            /\ proc' = [proc EXCEPT ![p] =
                    IF put.exc # None
                    THEN [@ EXCEPT !.pc = "raised", !.exc = put.exc]
                    ELSE [@ EXCEPT !.pc = "done", !.result = proc[p].tx,
                                   !.created = TRUE]]
    /\ UNCHANGED <<issued, ops, now, lastCreate, approvedIds>>

\* PaymentWebhookUseCase.execute: get_by_id and the not-found return
WebhookLookup(p, F) ==
    /\ FreeSlot(p)
    /\ ops < MaxOps
    /\ \E transaction_id \in WebhookIds(table), approval_status \in BOOLEAN,
          message \in Messages, fault \in F :
        LET req == [Idle EXCEPT !.op = "webhook", !.transaction_id = transaction_id,
                                !.approval_status = approval_status,
                                !.message = message]
            transaction == get_by_id(table, transaction_id, now)
        IN  proc' = [proc EXCEPT ![p] =
                IF fault \/ GetByIdRaises(table, transaction_id)
                THEN [req EXCEPT !.pc = "raised"]
                ELSE IF ~WebhookFound(transaction)
                THEN [req EXCEPT !.pc = "done", !.result = NoneTx]
                ELSE [req EXCEPT !.pc = "w_update", !.tx = transaction,
                                 !.found_status = Get(transaction, "status", None)]]
    /\ ops' = ops + 1
    /\ UNCHANGED <<table, issued, now, lastCreate, approvedIds>>

\* update_status: the update_item call; a ClientError makes it return None,
\* which the use case returns and the controller presents as an error
WebhookUpdate(p, F) ==
    /\ proc[p].pc = "w_update"
    /\ \E fault \in F :
        IF fault
        THEN /\ proc' = [proc EXCEPT ![p].pc = "done", ![p].result = NoneTx,
                                     ![p].updated = TRUE, ![p].tx = NoneTx]
             /\ UNCHANGED table
        ELSE /\ table' = UpdateStatusItem(table, proc[p].tx.id,
                            NewStatus(proc[p].approval_status),
                            ProviderValue(proc[p].transaction_id, proc[p].tx.id),
                            ErrorValue(proc[p].message), isoformat(now))
             /\ proc' = [proc EXCEPT ![p].pc = "w_readback", ![p].updated = TRUE,
                                     ![p].tx = NoneTx]
    /\ UNCHANGED <<issued, ops, now, lastCreate, approvedIds>>

\* update_status: "return self.get_by_id(transaction_id)", outside the try
WebhookReadBack(p, F) ==
    /\ proc[p].pc = "w_readback"
    /\ \E fault \in F :
        LET updated == get_by_id(table, proc[p].transaction_id, now)
        IN  proc' = [proc EXCEPT ![p] =
                IF fault \/ GetByIdRaises(table, proc[p].transaction_id)
                THEN [@ EXCEPT !.pc = "raised"]
                ELSE IF IsNone(updated)
                THEN [@ EXCEPT !.pc = "done", !.result = NoneTx]
                ELSE [@ EXCEPT !.pc = "cb_post", !.result = updated]]
    /\ UNCHANGED <<table, issued, ops, now, lastCreate, approvedIds>>

\* PaymentCallbackUseCase.execute: the POST and the choice of what to record
CallbackPost(p) ==
    /\ proc[p].pc = "cb_post"
    /\ \E outcome \in HttpOutcomes :
        proc' = [proc EXCEPT ![p].pc = "cb_update", ![p].posted = TRUE,
                             ![p].url = CallbackUrl(proc[p].result),
                             ![p].found_status = None,
                             ![p].outcome = outcome,
                             ![p].cb = CallbackResult(outcome),
                             ![p].handling = (CallbackResult(outcome).status = "FAILED")]
    /\ UNCHANGED <<table, issued, ops, now, lastCreate, approvedIds>>

\* update_callback_status: the update_item call; a ClientError makes it return None
CallbackUpdate(p, F) ==
    /\ proc[p].pc = "cb_update"
    /\ \E fault \in F :
        IF fault
        THEN /\ proc' = [proc EXCEPT ![p].pc = "done", ![p].outcome = NoOutcome]
             /\ UNCHANGED table
        ELSE /\ table' = UpdateCallbackItem(table, proc[p].result.id, proc[p].cb.status,
                            ErrorValue(proc[p].cb.error), isoformat(now))
             /\ proc' = [proc EXCEPT ![p].pc = "cb_readback",
                                     ![p].outcome = NoOutcome,
                                     ![p].recorded = TRUE]
    /\ UNCHANGED <<issued, ops, now, lastCreate, approvedIds>>

\* update_callback_status: "return self.get_by_id(transaction_id)", outside its
\* try.  Raised while DELIVERED is being recorded, the exception is caught by
\* execute's "except Exception" and FAILED is recorded; raised in that handler,
\* it leaves execute
CallbackReadBack(p, F) ==
    /\ proc[p].pc = "cb_readback"
    /\ \E fault \in F :
        LET raises == fault \/ GetByIdRaises(table, proc[p].result.id)
        IN  proc' = [proc EXCEPT ![p] =
                IF ~raises
                THEN [@ EXCEPT !.pc = "done"]
                ELSE IF proc[p].handling
                THEN [@ EXCEPT !.pc = "raised"]
                ELSE [@ EXCEPT !.pc = "cb_update", !.handling = TRUE,
                               !.cb = [status |-> "FAILED", error |-> ClientErrorText]]]
    /\ UNCHANGED <<table, issued, ops, now, lastCreate, approvedIds>>

\* PaymentStatusUseCase.execute
StatusQuery(p, F) ==
    /\ FreeSlot(p)
    /\ ops < MaxOps
    /\ \E order_id \in Orders, fault \in F :
        \E transaction \in get_by_order(table, order_id, fault, now) :
            proc' = [proc EXCEPT ![p] =
                [Idle EXCEPT !.op = "status", !.order_id = order_id,
                             !.index_failed = fault,
                             !.pc = "done", !.result = transaction,
                             !.view = IF IsNone(transaction) THEN NoView
                                      ELSE StatusView(transaction)]]
    /\ ops' = ops + 1
    /\ UNCHANGED <<table, issued, now, lastCreate, approvedIds>>

\* the handler returns (or its exception is turned into a 500) and the slot is free
Finish(p) ==
    /\ proc[p].pc \in {"done", "raised"}
    /\ proc' = [proc EXCEPT ![p] = Idle]
    /\ lastCreate' =
        IF proc[p].op = "create" /\ proc[p].pc = "done"
        THEN [lastCreate EXCEPT ![proc[p].order_id] = proc[p].result.id]
        ELSE lastCreate
    /\ approvedIds' =
        IF proc[p].op = "webhook" /\ proc[p].pc = "done"
           /\ ~IsNone(proc[p].result) /\ proc[p].approval_status
        THEN approvedIds \cup {proc[p].result.id}
        ELSE approvedIds
    /\ UNCHANGED <<table, issued, ops, now>>

Step(p, F) ==
    \/ CreateLookup(p, F)
    \/ CreatePut(p, F)
    \/ WebhookLookup(p, F)
    \/ WebhookUpdate(p, F)
    \/ WebhookReadBack(p, F)
    \/ CallbackPost(p)
    \/ CallbackUpdate(p, F)
    \/ CallbackReadBack(p, F)
    \/ StatusQuery(p, F)
    \/ Finish(p)

\* The repository called directly, as its callers and its unit tests do.
\* create_pending is called with the ids uuid4(0), which the seeded table
\* holds, and uuid4(1)
CallNumbers == {0, 1}

\* create_pending(transaction), for a transaction built now
CallCreatePending(p, F) ==
    /\ FreeSlot(p)
    /\ ops < MaxOps
    /\ \E n \in CallNumbers, order_id \in Orders, body \in CreateBodies, fault \in F :
        LET transaction ==
                BuildTransaction(order_id, body.amount, body.callback_url,
                                 body.provider, n, now)
            put == create_pending(table, transaction, fault)
            req == [Idle EXCEPT !.op = "create_pending", !.order_id = order_id,
                                !.tx = transaction]
        IN  /\ table' = put.table
            /\ proc' = [proc EXCEPT ![p] =
                    IF put.exc # None
                    THEN [req EXCEPT !.pc = "raised", !.exc = put.exc]
                    ELSE [req EXCEPT !.pc = "done", !.result = transaction,
                                     !.created = TRUE]]
    /\ ops' = ops + 1
    /\ UNCHANGED <<issued, now, lastCreate, approvedIds>>

\* get_by_order(order_id)
CallGetByOrder(p, F) ==
    /\ FreeSlot(p)
    /\ ops < MaxOps
    /\ \E order_id \in Orders, fault \in F :
        \E transaction \in get_by_order(table, order_id, fault, now) :
            proc' = [proc EXCEPT ![p] =
                [Idle EXCEPT !.op = "get_by_order", !.order_id = order_id,
                             !.index_failed = fault,
                             !.pc = "done", !.result = transaction]]
    /\ ops' = ops + 1
    /\ UNCHANGED <<table, issued, now, lastCreate, approvedIds>>

\* time passes
Tick ==
    /\ now < MaxTick
    /\ now' = now + 1
    /\ UNCHANGED <<table, proc, issued, ops, lastCreate, approvedIds>>

\* repository calls one after the other, table calls may fail
RepoNext ==
    \/ CallCreatePending(1, AnyFault)
    \/ CallGetByOrder(1, AnyFault)
    \/ Tick
    \/ Finish(1)
RepoSpec == Init /\ [][RepoNext]_vars

\* The entity's serialisation applied to transactions of every shape.
\* values of an Optional[str] field: None, the empty string, a text
OptionalTexts == {None, "", "v"}

ValidTransactions ==
    [id : {uuid4(0)}, order_id : {1}, amount : {10},
     status : PaymentStatus,
     provider : OptionalTexts, provider_tx_id : OptionalTexts,
     qr_or_link : OptionalTexts,
     expires_at : {NoTime, ExpiryMinutes},
     created_at : {0}, updated_at : {0, MaxTick},
     last_error : OptionalTexts,
     metadata : {EmptyDict, [callback_url |-> "http://cb"]},
     callback_status : CallbackStatus,
     last_callback_error : OptionalTexts]

\* a transaction is held, nothing is stored
RoundTripInit ==
    /\ table = EmptyTable
    /\ issued = 0 /\ ops = 0 /\ now = 0
    /\ lastCreate = [o \in Orders |-> None]
    /\ approvedIds = {}
    /\ \E transaction \in ValidTransactions :
        proc = [p \in Procs |->
                  IF p = 1
                  THEN [Idle EXCEPT !.op = "round_trip", !.pc = "rt_to_item",
                                    !.tx = transaction]
                  ELSE Idle]

\* item = transaction.to_item(), written as it is
RoundTripToItem(p) ==
    /\ proc[p].pc = "rt_to_item"
    /\ table' = Put(table, proc[p].tx.id, to_item(proc[p].tx))
    /\ proc' = [proc EXCEPT ![p].pc = "rt_from_item"]
    /\ UNCHANGED <<issued, ops, now, lastCreate, approvedIds>>

\* PaymentTransaction.from_item(item)
RoundTripFromItem(p) ==
    /\ proc[p].pc = "rt_from_item"
    /\ proc' = [proc EXCEPT ![p].pc = "done",
                            ![p].result = from_item(table[proc[p].tx.id], now)]
    /\ UNCHANGED <<table, issued, ops, now, lastCreate, approvedIds>>

RoundTripNext == RoundTripToItem(1) \/ RoundTripFromItem(1)
RoundTripSpec == RoundTripInit /\ [][RoundTripNext]_vars

\* concurrent requests, table calls may fail
Next == \E p \in Procs : Step(p, AnyFault)
Spec == Init /\ [][Next]_vars

\* concurrent requests, every table call answers
ConcNext == \E p \in Procs : Step(p, NoFaults)
ConcSpec == Init /\ [][ConcNext]_vars

\* requests with the plain inputs only: the first Create body, a webhook
\* without message, and a POST answered 200 or timing out
PlainInputs ==
    \A p \in Procs :
        /\ proc[p].message = None
        /\ proc[p].callback_url = None
        /\ proc[p].outcome \in
                {NoOutcome,
                 [kind |-> "response", code |-> 200, text |-> None],
                 [kind |-> "exception", code |-> 0, text |-> "timeout"]}

\* concurrent requests with the plain inputs, table calls may fail
PlainNext == Next /\ PlainInputs'
PlainSpec == Init /\ [][PlainNext]_vars

\* one request at a time, every table call answers
SeqNext == Step(1, NoFaults)
SeqSpec == Init /\ [][SeqNext]_vars

\* more than the validity of a payment passes with no request in flight
LongWait ==
    /\ now <= MaxTick
    /\ \A p \in Procs : proc[p].pc = "idle"
    /\ now' = now + ExpiryMinutes + 1
    /\ UNCHANGED <<table, proc, issued, ops, lastCreate, approvedIds>>

\* one request at a time, no faults, and long waits between the requests
ClockNext == Step(1, NoFaults) \/ LongWait
ClockSpec == Init /\ [][ClockNext]_vars

\* one request at a time with the plain inputs, table calls may fail
PlainSeqNext == Step(1, AnyFault) /\ PlainInputs'
PlainSeqSpec == Init /\ [][PlainSeqNext]_vars

\* one request at a time, table calls may fail
FaultSeqNext == Step(1, AnyFault)
FaultSeqSpec == Init /\ [][FaultSeqNext]_vars

\* the same, and a request in flight is not left waiting for ever: the table
\* calls return and the POST ends with an answer, an error or its timeout
FairFaultSeqSpec == FaultSeqSpec /\ WF_vars(FaultSeqNext)

---------------------------------------------------------------------------
(* Boundary: src/adapters/presenters/implementations/json_presenter.py,     *)
(* src/adapters/controllers/payment_controller.py,                         *)
(* src/adapters/routes/payment_routes.py                                   *)

HTTP_OK == 200
BAD_REQUEST == 400
NOT_FOUND == 404
INTERNAL_SERVER_ERROR == 500

\* JSONPresenter._get_status_code_for_exception, for the exception types raised
\* here: validation errors and ValueError are 400, the not-found exceptions and
\* FileNotFoundError are 404, anything else is 500
_get_status_code_for_exception(error_type) ==
    IF error_type = "ValueError" THEN BAD_REQUEST
    ELSE IF error_type = "FileNotFoundError" THEN NOT_FOUND
    ELSE INTERNAL_SERVER_ERROR

\* JSONPresenter.present_error (a ValueError has no status_code attribute)
present_error(error_type, message) ==
    [error |-> [message |-> message, type |-> error_type,
                status_code |-> _get_status_code_for_exception(error_type)]]

\* PaymentController.process_webhook: what it returns for the transaction the
\* webhook use case returned; the callback's outcome is not part of it
process_webhook(transaction) ==
    IF IsNone(transaction)
    THEN present_error("ValueError", "Transaction not found")
    ELSE [message |-> "Payment processed", transaction_id |-> transaction.id]

\* PaymentController.status
status(response) ==
    IF response = NoView
    THEN present_error("ValueError", "Transaction not found")
    ELSE response

\* payment_webhook / payment_status: an "error" result becomes an HTTPException
\* with the status code the result carries
HttpResponse(result) ==
    IF "error" \in DOMAIN result
    THEN [status_code |-> result.error.status_code, detail |-> result.error.message]
    ELSE [status_code |-> HTTP_OK, body |-> result]

\* the HTTP response of the request in slot p once its handler has ended; an
\* exception that leaves the handler is answered with 500
Response(p) ==
    IF proc[p].pc = "raised"
    THEN [status_code |-> INTERNAL_SERVER_ERROR, detail |-> "Internal Server Error"]
    ELSE IF proc[p].op = "webhook" THEN HttpResponse(process_webhook(proc[p].result))
    ELSE IF proc[p].op = "status"
         THEN HttpResponse(status(proc[p].view))
    ELSE [status_code |-> HTTP_OK, body |-> CreateResponse(proc[p].result)]

---------------------------------------------------------------------------
(* Properties *)

Stored(i) == i \in DOMAIN table
StatusOf(tbl, i) == Get(tbl[i], "status", "PENDING")
CallbackStatusOf(tbl, i) == Get(tbl[i], "callback_status", "PENDING")
Terminal == {"APPROVED", "DECLINED", "EXPIRED"}

\* slot p starts a request of kind op in this step
Starts(p, op) == proc[p].pc = "idle" /\ proc'[p].op = op

C2_AtMostOnePendingPerOrder ==
    \A o \in Orders :
        Cardinality({i \in order_id_index(table, o) : StatusOf(table, i) = "PENDING"}) <= 1

\* slot p is a Create that has executed create_pending
PastPut(p) ==
    /\ proc[p].op = "create"
    /\ \/ proc[p].pc = "raised"
       \/ proc[p].pc = "done" /\ proc[p].created

\* C3 (as claimed): of two Creates for the same order that both read absent and
\* both executed create_pending, exactly one write succeeded and the other failed.
C3_ExactlyOneWriteSucceeds ==
    \A p, q \in Procs :
        (p # q /\ PastPut(p) /\ PastPut(q) /\ proc[p].order_id = proc[q].order_id)
        => (proc[p].pc = "raised") # (proc[q].pc = "raised")

\* C4 (as claimed): a stored status that is APPROVED, DECLINED or EXPIRED is
\* never changed by any step.
C4_TerminalStatusNeverChanges ==
    [][\A i \in DOMAIN table :
        StatusOf(table, i) \in Terminal
        => (i \in DOMAIN table' /\ StatusOf(table', i) = StatusOf(table, i))]_vars

\* C5 (as claimed): a stored callback_status DELIVERED is never changed, a FAILED
\* one never goes back to PENDING.
C5_DeliveredNeverChanges ==
    [][\A i \in DOMAIN table :
        /\ CallbackStatusOf(table, i) = "DELIVERED"
            => CallbackStatusOf(table', i) = "DELIVERED"
        /\ CallbackStatusOf(table, i) = "FAILED"
            => CallbackStatusOf(table', i) # "PENDING"]_vars

\* slot p is a Webhook whose use case has just returned (before the callback)
\* for a transaction it found PENDING
ReturnedForPending(p) ==
    /\ proc[p].op = "webhook"
    /\ proc[p].found_status = "PENDING"
    /\ proc[p].pc \in {"cb_post", "done"}

\* C6: a Webhook for a transaction found PENDING returns that transaction, with
\* status APPROVED when approved, and with status DECLINED and last_error equal
\* to the message given when not approved (requests one after the other, table
\* calls answering).
C6_WebhookResult ==
    \A p \in Procs :
        ReturnedForPending(p)
        => /\ ~IsNone(proc[p].result)
           /\ proc[p].result.id = proc[p].transaction_id
           /\ proc[p].approval_status => proc[p].result.status = "APPROVED"
           /\ ~proc[p].approval_status
                => /\ proc[p].result.status = "DECLINED"
                   /\ proc[p].message # None
                        => proc[p].result.last_error = proc[p].message

\* C6 witness: a declining Webhook with message "X" has returned for a
\* transaction it found PENDING
C6_Witness ==
    \E p \in Procs :
        /\ ReturnedForPending(p)
        /\ ~proc[p].approval_status /\ proc[p].message = "X"
        /\ proc[p].result.status = "DECLINED" /\ proc[p].result.last_error = "X"

\* C7 (as claimed): after an approving Webhook for a transaction found PENDING
\* the returned transaction has provider_tx_id equal to its id.
C7_ProviderTxIdIsId ==
    \A p \in Procs :
        (ReturnedForPending(p) /\ proc[p].approval_status /\ ~IsNone(proc[p].result))
        => proc[p].result.provider_tx_id = proc[p].result.id

\* C8: a Webhook naming an id that is not stored returns absent at once, without
\* calling update_status and without a callback POST, and leaves the table as it
\* is; the only step left to it is to return (table calls answering).
C8_UnknownWebhook ==
    [][\A p \in Procs :
        /\ (Starts(p, "webhook") /\ ~Stored(proc'[p].transaction_id))
            => /\ proc'[p].pc = "done"
               /\ IsNone(proc'[p].result)
               /\ ~proc'[p].updated /\ ~proc'[p].posted
               /\ table' = table
        /\ (/\ proc[p].op = "webhook" /\ proc[p].pc = "done"
            /\ ~proc[p].updated /\ proc'[p] # proc[p])
            => (proc'[p] = Idle /\ table' = table)]_vars

\* C8 witness: a Webhook for the id that is not stored has returned absent
C8_Witness ==
    \E p \in Procs :
        /\ proc[p].op = "webhook" /\ proc[p].pc = "done"
        /\ proc[p].transaction_id = UnknownId
        /\ IsNone(proc[p].result) /\ ~proc[p].updated /\ ~proc[p].posted

\* slot p records the outcome of its POST in this step
RecordsOutcome(p) == proc[p].pc = "cb_update" /\ proc'[p].pc = "cb_readback"

StoredCallbackError(tbl, i) == Get(tbl[i], "last_callback_error", None)

\* C9 (as claimed): the delivery stores DELIVERED for a response below 400, and
\* FAILED with a non-empty error string for a response of 400 or more and for
\* any exception.
C9_CallbackOutcomeStored ==
    [][\A p \in Procs :
        (RecordsOutcome(p) /\ proc[p].outcome.kind # None)
        => LET id == proc[p].result.id
               ok == proc[p].outcome.kind = "response" /\ proc[p].outcome.code < 400
           IN  /\ ok => CallbackStatusOf(table', id) = "DELIVERED"
               /\ ~ok => /\ CallbackStatusOf(table', id) = "FAILED"
                         /\ Truthy(StoredCallbackError(table', id))]_vars

\* C10 (as claimed): after a delivery whose POST returned a status below 400 the
\* stored last_callback_error is absent.
C10_DeliveredClearsError ==
    [][\A p \in Procs :
        (/\ RecordsOutcome(p)
         /\ proc[p].outcome.kind = "response" /\ proc[p].outcome.code < 400)
        => StoredCallbackError(table', proc[p].result.id) = None]_vars

\* C11 (as claimed): the callback delivery never raises to its caller, whatever
\* the outcome of the POST and of the table calls: no request ends with an
\* exception after its POST.
C11_CallbackNeverRaises ==
    \A p \in Procs : ~(proc[p].op = "webhook" /\ proc[p].posted /\ proc[p].pc = "raised")

\* process_webhook has returned success in slot p
WebhookSucceeded(p) ==
    proc[p].op = "webhook" /\ proc[p].pc = "done" /\ ~IsNone(proc[p].result)

Resolved(p) ==
    /\ Stored(proc[p].result.id)
    /\ CallbackStatusOf(table, proc[p].result.id) \in {"DELIVERED", "FAILED"}

\* the request of slot p is inside the callback delivery
InDelivery(p) == proc[p].pc \in {"cb_post", "cb_update", "cb_readback"}

EndedAfterPost(p) ==
    proc[p].op = "webhook" /\ proc[p].posted /\ proc[p].pc \in {"done", "raised"}

\* C13 (as claimed): the answer to a Webhook that reached the callback is the
\* same {message: "Payment processed", transaction_id} whatever the outcome of
\* the POST: it is determined by the webhook's input alone.
C13_ResponseIgnoresCallback ==
    \A p \in Procs :
        EndedAfterPost(p)
        => Response(p) = [status_code |-> HTTP_OK,
                          body |-> [message |-> "Payment processed",
                                    transaction_id |-> proc[p].transaction_id]]

\* slot p is a Webhook that found no transaction, or a Status query that found
\* none for its order
AnsweredNotFound(p) ==
    /\ proc[p].pc = "done"
    /\ \/ proc[p].op = "webhook" /\ ~proc[p].updated /\ IsNone(proc[p].result)
       \/ proc[p].op = "status" /\ proc[p].view = NoView

\* C14 (as claimed): a Webhook for an unknown transaction id and a Status query
\* for an order without transaction are both answered with HTTP status 404.
C14_NotFoundIs404 ==
    \A p \in Procs : AnsweredNotFound(p) => Response(p).status_code = NOT_FOUND

\* slot p holds the answer of a get_by_order call whose query did not fail
GotByOrder(p) ==
    proc[p].op = "get_by_order" /\ proc[p].pc = "done" /\ ~proc[p].index_failed

CreatedAt(i) == from_item(table[i], now).created_at

\* C15 (as claimed): get_by_order returns absent only when the order has no
\* stored transaction, and otherwise one of the order's transactions than which
\* none was created later.
C15_MostRecentOfOrder ==
    \A p \in Procs :
        GotByOrder(p)
        => LET stored == order_id_index(table, proc[p].order_id)
           IN  /\ IsNone(proc[p].result) <=> stored = {}
               /\ ~IsNone(proc[p].result)
                    => /\ proc[p].result.id \in stored
                       /\ \A i \in stored : CreatedAt(i) <= proc[p].result.created_at

\* C16: a get_by_order call whose index query fails returns absent, raises
\* nothing and leaves the table as it is.
C16_IndexFailureIsAbsent ==
    [][\A p \in Procs :
        (Starts(p, "get_by_order") /\ proc'[p].index_failed)
        => /\ proc'[p].pc = "done"
           /\ IsNone(proc'[p].result)
           /\ table' = table]_vars

\* C16 witness: get_by_order has returned absent, its query having failed, for
\* an order that has a stored transaction
C16_Witness ==
    \E p \in Procs :
        /\ proc[p].op = "get_by_order" /\ proc[p].pc = "done" /\ proc[p].index_failed
        /\ IsNone(proc[p].result)
        /\ order_id_index(table, proc[p].order_id) # {}

\* C17 (as claimed): update_status and update_callback_status return absent on
\* a storage failure of the write or of the read-back, never raising: no Webhook
\* ends with an exception once its update_status write was made.
C17_UpdateNeverRaises ==
    \A p \in Procs : ~(proc[p].op = "webhook" /\ proc[p].updated /\ proc[p].pc = "raised")

\* C18: a create_pending call that the table answers fails with the
\* conditional-check error and leaves the table as it is when an item with the
\* transaction's id is stored; otherwise it stores the transaction's item under
\* that id, changes no other item and returns the transaction.
C18_InsertIfAbsent ==
    [][\A p \in Procs :
        (Starts(p, "create_pending") /\ proc'[p].exc # "ClientError")
        => LET transaction == proc'[p].tx
           IN  IF transaction.id \in DOMAIN table
               THEN /\ proc'[p].pc = "raised"
                    /\ proc'[p].exc = "ConditionalCheckFailedException"
                    /\ table' = table
               ELSE /\ proc'[p].pc = "done"
                    /\ proc'[p].result = transaction
                    /\ DOMAIN table' = DOMAIN table \cup {transaction.id}
                    /\ table'[transaction.id] = to_item(transaction)
                    /\ \A i \in DOMAIN table : table'[i] = table[i]]_vars

\* C18 witness: create_pending has failed its condition for an id that is
\* stored with another order and amount than the ones it was called with
C18_Witness ==
    \E p \in Procs :
        /\ proc[p].op = "create_pending" /\ proc[p].pc = "raised"
        /\ proc[p].exc = "ConditionalCheckFailedException"
        /\ Stored(proc[p].tx.id)
        /\ table[proc[p].tx.id]["order_id"] # proc[p].tx.order_id
        /\ table[proc[p].tx.id]["amount"] # proc[p].tx.amount

\* slot p holds the answer to a Status query for an order whose Create returned
\* transaction t, made after an approving Webhook for t returned success
StatusAfterApproval(p, t) ==
    /\ proc[p].op = "status" /\ proc[p].pc = "done"
    /\ lastCreate[proc[p].order_id] = t
    /\ t \in approvedIds

\* C19 (as claimed): once Create(O) has returned t and an approving Webhook for
\* t has succeeded, every later Status(O) reports transaction t with status
\* APPROVED.
C19_StatusShowsApproved ==
    \A p \in Procs : \A t \in approvedIds :
        StatusAfterApproval(p, t)
        => /\ proc[p].view.transaction_id = t
           /\ proc[p].view.status = "APPROVED"

\* C20: a Status query changes nothing in the table; it returns absent when
\* get_by_order finds no transaction (the order has none stored, or the index
\* query failed), and otherwise a view whose
\* transaction_id, order_id, status, callback_status, qr_or_link, expires_at and
\* last_error are those of the transaction get_by_order found, which is a stored
\* transaction of that order.
C20_StatusIsReadOnlyView ==
    [][\A p \in Procs :
        Starts(p, "status")
        => LET view == proc'[p].view
               found == order_id_index(table, proc'[p].order_id)
           IN  /\ table' = table
               /\ proc'[p].pc = "done"
               /\ (view = NoView) <=> (found = {} \/ proc'[p].index_failed)
               /\ view # NoView
                    => /\ view.transaction_id \in found
                       /\ LET tx == from_item(table[view.transaction_id], now)
                          IN  /\ proc'[p].result = tx
                              /\ view.order_id = tx.order_id
                              /\ view.status = tx.status
                              /\ view.callback_status = tx.callback_status
                              /\ view.qr_or_link = tx.qr_or_link
                              /\ view.expires_at = tx.expires_at
                              /\ view.last_error = tx.last_error]_vars

\* C20 witness: a Status query has returned the view of a DECLINED transaction
\* carrying the webhook's message as last_error
C20_Witness ==
    \E p \in Procs :
        /\ proc[p].op = "status" /\ proc[p].pc = "done" /\ proc[p].view # NoView
        /\ proc[p].view.status = "DECLINED" /\ proc[p].view.last_error = "X"
        /\ StatusOf(table, proc[p].view.transaction_id) = "DECLINED"

\* C21: the callback POST goes to exactly the callback_url stored in the
\* metadata of the transaction's record when there is one, and otherwise to
\* {order_api_host}/order/payment_confirm/{order_id} with the record's order_id
\* (requests one after the other).
C21_PostsToStoredUrl ==
    \A p \in Procs :
        (proc[p].op = "webhook" /\ proc[p].posted)
        => LET item == table[proc[p].transaction_id]
           IN  IF "callback_url" \in DOMAIN item["metadata"]
               THEN proc[p].url = item["metadata"]["callback_url"]
               ELSE proc[p].url = OrderApiHost \o "/order/payment_confirm/"
                                    \o ToString(item["order_id"])

\* C21 witness: a callback was posted to the URL the Create request gave
C21_Witness ==
    \E p \in Procs :
        /\ proc[p].op = "webhook" /\ proc[p].posted
        /\ proc[p].url = "http://cb"
        /\ table[proc[p].transaction_id]["metadata"]["callback_url"] = "http://cb"

C23_RoundTrip ==
    \A p \in Procs :
        (proc[p].op = "round_trip" /\ proc[p].pc = "done")
        => /\ DOMAIN proc[p].result = DOMAIN proc[p].tx
           /\ \A f \in DOMAIN proc[p].tx : proc[p].result[f] = proc[p].tx[f]

\* C23 witness: the round trip is done for an EXPIRED transaction without
\* expires_at, with an empty last_error and a textual last_callback_error
C23_Witness ==
    \E p \in Procs :
        /\ proc[p].op = "round_trip" /\ proc[p].pc = "done"
        /\ proc[p].tx.status = "EXPIRED" /\ proc[p].tx.expires_at = NoTime
        /\ proc[p].tx.last_error = "" /\ proc[p].tx.last_callback_error = "v"
        /\ proc[p].tx.provider = None
        /\ "provider" \notin DOMAIN table[proc[p].tx.id]
        /\ table[proc[p].tx.id]["last_error"] = ""

\* the stored transactions of an order are all still PENDING (or there is none)
OnlyPending(o) ==
    \A i \in order_id_index(table, o) : StatusOf(table, i) = "PENDING"

C25_CallbackOncePerUpdate ==
    /\ [](\A p \in Procs :
            proc[p].op = "webhook"
            => /\ proc[p].pc = "cb_post"
                    => (~proc[p].posted /\ proc[p].updated /\ ~IsNone(proc[p].result))
               /\ proc[p].posted
                    => /\ proc[p].updated /\ ~IsNone(proc[p].result)
                       /\ proc[p].pc \in {"cb_update", "cb_readback", "done", "raised"}
               /\ proc[p].pc = "done"
                    => (proc[p].posted <=> ~IsNone(proc[p].result)))
    /\ [][\A p \in Procs :
            (~proc[p].posted /\ proc'[p].posted)
            => /\ proc[p].pc = "cb_post"
               /\ StatusOf(table, proc[p].transaction_id)
                    = NewStatus(proc[p].approval_status)
               /\ table' = table]_vars

\* C25 witness: a Webhook has returned after one callback POST for the
\* transaction it approved
C25_Witness ==
    \E p \in Procs :
        /\ WebhookSucceeded(p) /\ proc[p].posted /\ proc[p].approval_status
        /\ proc[p].found_status = None
        /\ StatusOf(table, proc[p].transaction_id) = "APPROVED"

\* C26 (as claimed): whenever update_status(id, s) has returned a transaction,
\* that transaction's status is s, also with another update_status on the same
\* id running between its write and its read-back.
C26_ReturnsOwnStatus ==
    \A p \in Procs :
        (proc[p].op = "webhook" /\ ~IsNone(proc[p].result))
        => proc[p].result.status = NewStatus(proc[p].approval_status)

\* PaymentTransaction.mark_status: status = status,
\* provider_tx_id = provider_tx_id or self.provider_tx_id, last_error = error,
\* updated_at = now
mark_status(tx, new_status, provider_tx_id, error, t) ==
    [tx EXCEPT !.status = new_status,
               !.provider_tx_id = IF Truthy(provider_tx_id)
                                  THEN provider_tx_id ELSE tx.provider_tx_id,
               !.last_error = error,
               !.updated_at = t]

\* slot p's update_status call writes to the table in this step
WritesStatus(p) == proc[p].pc = "w_update" /\ proc'[p].pc = "w_readback"

\* C27 (as claimed): update_status(id, s, p, e) changes the stored status,
\* provider_tx_id and last_error exactly as mark_status(s, p, e) changes the
\* same record: the record read after the write equals, on these three fields,
\* the record read before it with mark_status applied.
C27_UpdateRefinesMark ==
    [][\A p \in Procs :
        WritesStatus(p) =>
            LET id == proc[p].tx.id
                before == get_by_id(table, id, now)
                after == get_by_id(table', id, now)
                marked == mark_status(before, NewStatus(proc[p].approval_status),
                                      proc[p].transaction_id, proc[p].message, now)
            IN  /\ after.status = marked.status
                /\ after.provider_tx_id = marked.provider_tx_id
                /\ after.last_error = marked.last_error]_vars

\* slot p's Create stores its transaction in this step
StoresNew(p) == proc[p].pc = "c_put" /\ proc'[p].pc = "done"

\* C28: a record stored by Create has status PENDING and callback_status
\* PENDING at the moment it is stored, under an id that no stored record had
\* before; and every record that appears in the table is such a record.
C28_StoredPendingAndFresh ==
    [][/\ \A p \in Procs :
            StoresNew(p) =>
                LET id == proc[p].tx.id
                IN  /\ id \notin DOMAIN table
                    /\ id \in DOMAIN table'
                    /\ table'[id]["id"] = id
                    /\ StatusOf(table', id) = "PENDING"
                    /\ CallbackStatusOf(table', id) = "PENDING"
       /\ \A i \in DOMAIN table' \ DOMAIN table :
            \E p \in Procs : StoresNew(p) /\ proc[p].tx.id = i]_vars

\* C28 witness: a Create has stored a transaction in a table that already held
\* another one, and the two ids differ.
C28_Witness ==
    \E p \in Procs :
        /\ proc[p].op = "create" /\ proc[p].pc = "done" /\ proc[p].created
        /\ proc[p].result.id \in DOMAIN table
        /\ \E j \in DOMAIN table : j # proc[p].result.id

\* C29: no step of Create, Webhook, Status or the callback delivery brings a
\* stored transaction to EXPIRED: a record that is EXPIRED after a step was
\* stored and EXPIRED before it, so from a table without EXPIRED records only
\* PENDING, APPROVED and DECLINED are reached.
C29_NeverExpires ==
    [][\A i \in DOMAIN table' :
        StatusOf(table', i) = "EXPIRED"
        => (i \in DOMAIN table /\ StatusOf(table, i) = "EXPIRED")]_vars

\* C29 witness: a Webhook has declined a transaction and its callback delivery
\* has ended, and no stored transaction is EXPIRED.
C29_Witness ==
    /\ \E p \in Procs :
        /\ proc[p].op = "webhook" /\ proc[p].posted /\ proc[p].pc = "done"
        /\ ~proc[p].approval_status
        /\ StatusOf(table, proc[p].transaction_id) = "DECLINED"
    /\ \A i \in DOMAIN table : StatusOf(table, i) \in {"PENDING", "APPROVED", "DECLINED"}

\* the request that slot p holds, or takes up, in this step
Acting(p) == IF proc[p].pc = "idle" THEN proc'[p] ELSE proc[p]

\* the order that slot p's request is about, as a set of at most one order:
\* the order_id of a Create or a Status request, the order of the transaction
\* that a Webhook names (none when that transaction is not stored)
ActingOrders(p) ==
    IF Acting(p).op = "webhook"
    THEN {table[i]["order_id"] :
            i \in {j \in DOMAIN table : /\ j = Acting(p).transaction_id
                                        /\ "order_id" \in DOMAIN table[j]}}
    ELSE {o \in Orders : Acting(p).op \in {"create", "status"} /\ o = Acting(p).order_id}

\* C30: a step of a request about order O (Create(O), Status(O), a Webhook on a
\* transaction of O, its callback delivery) leaves every stored record whose
\* order_id differs from O stored and unchanged, whatever the other slot's
\* request is doing.
C30_OtherOrdersUntouched ==
    [][\A p \in Procs :
        proc'[p] # proc[p] =>
            \A i \in DOMAIN table :
                ("order_id" \in DOMAIN table[i]
                    => table[i]["order_id"] \notin ActingOrders(p))
                => (i \in DOMAIN table' /\ table'[i] = table[i])]_vars

\* C30 witness: a Webhook has updated a transaction of one order while a Create
\* for another order was in flight, and both records are stored.
C30_Witness ==
    \E p, q \in Procs :
        /\ proc[p].op = "webhook" /\ proc[p].updated /\ proc[p].pc = "cb_update"
        /\ proc[q].op = "create" /\ proc[q].created /\ proc[q].pc = "done"
        /\ proc[p].transaction_id \in DOMAIN table
        /\ proc[q].result.id \in DOMAIN table
        /\ table[proc[p].transaction_id]["order_id"] # proc[q].order_id
        /\ StatusOf(table, proc[p].transaction_id) \in {"APPROVED", "DECLINED"}
        /\ StatusOf(table, proc[q].result.id) = "PENDING"

\* attribute k of the stored item i is the same, or as absent, after the step
KeepsAttr(i, k) ==
    /\ i \in DOMAIN table'
    /\ (k \in DOMAIN table[i]) = (k \in DOMAIN table'[i])
    /\ Get(table[i], k, None) = Get(table'[i], k, None)

\* the attributes that neither update expression names
SharedFrame == {"metadata", "qr_or_link", "expires_at", "provider", "created_at"}

\* C31: update_status leaves callback_status and last_callback_error of the
\* record as they were, update_callback_status leaves status, provider_tx_id
\* and last_error as they were, and both leave metadata, qr_or_link,
\* expires_at, provider and created_at as they were.
C31_UpdatesKeepOtherFields ==
    [][\A p \in Procs :
        /\ WritesStatus(p) =>
                \A k \in SharedFrame \cup {"callback_status", "last_callback_error"} :
                    KeepsAttr(proc[p].tx.id, k)
        /\ RecordsOutcome(p) =>
                \A k \in SharedFrame \cup {"status", "provider_tx_id", "last_error"} :
                    KeepsAttr(proc[p].result.id, k)]_vars

\* C31 witness: a record that Create stored has been through update_status and
\* then through update_callback_status, and still has what Create gave it.
C31_Witness ==
    \E p \in Procs :
        /\ proc[p].op = "webhook" /\ proc[p].recorded /\ proc[p].pc = "cb_readback"
        /\ LET item == table[proc[p].result.id]
           IN  /\ item["status"] = "APPROVED"
               /\ item["callback_status"] = "DELIVERED"
               /\ SharedFrame \subseteq DOMAIN item
               /\ item["provider"] = "mercadopago"

\* slot p's Create returns an existing transaction in this step
Reuses(p) == Starts(p, "create") /\ proc'[p].pc = "done" /\ ~proc'[p].created

\* C32: a Create that reuses an existing transaction leaves the table exactly
\* as it was, whatever amount, provider and callback_url the request carries,
\* and no step changes the metadata of a stored record, so the callback target
\* that a delivery reads from the record is the one its Create recorded.
C32_ReuseChangesNothing ==
    [][/\ \A p \in Procs : Reuses(p) => table' = table
       /\ \A i \in DOMAIN table : KeepsAttr(i, "metadata")]_vars

\* C32 witness: a Create carrying a callback_url, another amount and another
\* provider has returned the stored transaction of its order, whose record
\* has no callback_url, amount 10 and the default provider.
C32_Witness ==
    \E p \in Procs :
        /\ proc[p].op = "create" /\ proc[p].pc = "done" /\ ~proc[p].created
        /\ proc[p].callback_url = "http://cb" /\ proc[p].amount = 20
        /\ proc[p].provider = "pix"
        /\ LET item == table[proc[p].result.id]
           IN  /\ "callback_url" \notin DOMAIN item["metadata"]
               /\ item["amount"] = 10
               /\ item["provider"] = "mercadopago"

\* the stored record i is PENDING and its expires_at is earlier than the clock
PendingPastExpiry(i) ==
    /\ StatusOf(table, i) = "PENDING"
    /\ "expires_at" \in DOMAIN table[i]
    /\ fromisoformat(table[i]["expires_at"]) < now

CallbackPayload(tx) ==
    [transaction_id |-> tx.id,
     approval_status |-> (tx.status = "APPROVED"),
     message |-> IF Truthy(tx.last_error) THEN tx.last_error ELSE ""]

\* slot p sends its callback POST in this step
Posts(p) == proc[p].pc = "cb_post" /\ proc'[p].pc = "cb_update"

\* slot p's POST is the last one of two webhooks for the same transaction:
\* the other slot's webhook for it has already sent its own
LastPost(p) ==
    /\ Posts(p)
    /\ \E q \in Procs \ {p} :
        /\ proc[q].op = "webhook" /\ proc[q].posted
        /\ proc[q].transaction_id = proc[p].transaction_id

\* C34 (as claimed): with two concurrent webhooks for one transaction, the
\* approval_status sent in the last callback POST agrees with the stored
\* status that both updates have left: true exactly when it is APPROVED.
C34_LastPostAgrees ==
    [][\A p \in Procs :
        LastPost(p) =>
            (CallbackPayload(proc[p].result).approval_status
                = (StatusOf(table, proc[p].transaction_id) = "APPROVED"))]_vars

\* slot p's delivery has recorded DELIVERED: its POST returned a status below
\* 400 and its update_callback_status(DELIVERED) has written
RecordedDelivered(p) ==
    /\ proc[p].op = "webhook" /\ proc[p].posted /\ proc[p].recorded
    /\ CallbackStatusOf(table, proc[p].result.id) = "DELIVERED"

\* C35 (as claimed): a callback delivery whose POST returned a status below
\* 400 never writes callback_status FAILED, also when a table call fails
\* while it records DELIVERED: no later write of the same delivery turns the
\* DELIVERED it recorded into FAILED.
C35_DeliveredStaysDelivered ==
    [][\A p \in Procs :
        (RecordedDelivered(p) /\ RecordsOutcome(p))
        => CallbackStatusOf(table', proc[p].result.id) # "FAILED"]_vars

\* C36: every webhook for a stored transaction goes on to update_status and,
\* once update_status has returned the transaction, to a callback POST,
\* whatever the stored status and callback_status are and whatever was
\* processed before (the request's event_id is never read): a webhook that
\* has ended has sent exactly one POST if its update returned the transaction
\* and none otherwise, so POSTs and successful updates are equal in number.
C36_EveryWebhookPosts ==
    /\ [][\A p \in Procs :
            /\ (Starts(p, "webhook") /\ Stored(proc'[p].transaction_id))
                    => proc'[p].pc = "w_update"
            /\ (proc[p].pc = "w_readback" /\ proc'[p] # proc[p])
                    => (proc'[p].pc = "cb_post" /\ ~proc'[p].posted)
            /\ (proc[p].pc = "cb_post" /\ proc'[p] # proc[p])
                    => (proc'[p].pc = "cb_update" /\ proc'[p].posted)
            /\ (proc[p].posted /\ proc'[p].posted) => proc[p].pc # "cb_post"]_vars
    /\ [](\A p \in Procs :
            (proc[p].op = "webhook" /\ proc[p].pc = "done")
            => (proc[p].posted <=> proc[p].updated))

\* C36 witness: a webhook approving a transaction that an earlier webhook had
\* already approved, and whose callback was already DELIVERED, has sent its
\* own callback POST.
C36_Witness ==
    \E p \in Procs :
        /\ proc[p].op = "webhook" /\ proc[p].approval_status
        /\ proc[p].pc = "cb_update" /\ proc[p].posted /\ ~proc[p].recorded
        /\ proc[p].transaction_id \in approvedIds
        /\ CallbackStatusOf(table, proc[p].transaction_id) = "DELIVERED"

\* slot p's create_pending call is made in this step and the table answers it
\* (the put_item request itself does not fail)
PutAnswers(p) ==
    /\ proc[p].pc = "c_put" /\ proc'[p] # proc[p]
    /\ proc'[p].exc # "ClientError"

\* C37: when the index query of get_by_order fails, the Create goes on to
\* create_pending although a transaction of the order is stored, and when
\* create_pending stores the new transaction the Create reports created=true
\* with the new id, and the order has one stored transaction more than before,
\* two or more when it had one.
C37_IndexFailureDuplicates ==
    [][\A p \in Procs :
        /\ (Starts(p, "create") /\ proc'[p].index_failed)
                => (proc'[p].pc = "c_put" /\ table' = table)
        /\ (PutAnswers(p) /\ proc[p].index_failed)
                => LET before == order_id_index(table, proc[p].order_id)
                       after == order_id_index(table', proc[p].order_id)
                   IN  /\ StoresNew(p)
                       /\ proc'[p].created
                       /\ proc'[p].result.id = proc[p].tx.id
                       /\ after = before \cup {proc[p].tx.id}
                       /\ Cardinality(after) = Cardinality(before) + 1]_vars

\* C37 witness: a Create whose index query failed has reported created=true
\* for an order that had a stored transaction, and the order now has two.
C37_Witness ==
    \E p \in Procs :
        /\ proc[p].op = "create" /\ proc[p].pc = "done"
        /\ proc[p].index_failed /\ proc[p].created
        /\ Cardinality(order_id_index(table, proc[p].order_id)) = 2

\* C38: every stored record carries all the required fields that to_item
\* writes, under its own id, and update_status and update_callback_status are
\* only ever applied to an id that is stored, so that their update_item never
\* creates a record of its own.
C38_RecordsAreComplete ==
    /\ [](\A i \in DOMAIN table :
            RequiredFields \subseteq DOMAIN table[i] /\ table[i]["id"] = i)
    /\ [][\A p \in Procs :
            /\ WritesStatus(p) => Stored(proc[p].tx.id)
            /\ RecordsOutcome(p) => Stored(proc[p].result.id)
            /\ DOMAIN table' # DOMAIN table => StoresNew(p) \/ proc'[p] = proc[p]]_vars

\* C38 witness: a record inserted by a Create has been through update_status
\* and update_callback_status and carries every required field.
C38_Witness ==
    \E p \in Procs :
        /\ proc[p].op = "webhook" /\ proc[p].pc = "done" /\ proc[p].recorded
        /\ proc[p].transaction_id = uuid4(1)
        /\ RequiredFields \subseteq DOMAIN table[uuid4(1)]
        /\ StatusOf(table, uuid4(1)) \in {"APPROVED", "DECLINED"}
        /\ CallbackStatusOf(table, uuid4(1)) \in {"DELIVERED", "FAILED"}

====
